---- MODULE Spec2Model ----
(***************************************************************************)
(* Model of main/views.py: the view functions of the citation browse GUI.  *)
(* One request is handled per cycle: a view action takes the state from    *)
(* pc = "idle" to pc = "done", recording the request, the calls made to    *)
(* the collaborators (with what they returned or raised), the flash        *)
(* messages added and the response.                                        *)
(*                                                                         *)
(* Strings that go through quote_plus / unquote_plus are sequences of      *)
(* one-character strings; identifiers that are only compared (dataset_id,  *)
(* doctype) are TLA+ strings.  Python's None and '' are both falsy and the *)
(* views only test truthiness, so a missing value is the empty string.     *)
(***************************************************************************)
EXTENDS Integers, Sequences, FiniteSets, TLC

\* ------------------------------------------------------------------ bounds
MaxPathLen == 2
MaxQueryLen == 2

\* ----------------------------------------------------------------- strings
\* Characters requests are built from: an unreserved character that is also
\* a hex digit, and the three characters quote_plus / unquote_plus rewrite.
Alphabet == {"2", " ", "+", "%"}

RECURSIVE StringsUpTo(_)
StringsUpTo(n) ==
    IF n = 0 THEN {<< >>}
    ELSE LET shorter == StringsUpTo(n - 1)
         IN  shorter \cup {Append(s, c) : s \in {t \in shorter : Len(t) = n - 1},
                                          c \in Alphabet}

PathStrings == StringsUpTo(MaxPathLen)
QueryStrings == StringsUpTo(MaxQueryLen)

\* Code points 0..127; control characters, the double quote, the backslash
\* and the backtick are written <hh>.
Ascii ==
  << "<00>", "<01>", "<02>", "<03>", "<04>", "<05>", "<06>", "<07>",
     "<08>", "<09>", "<0A>", "<0B>", "<0C>", "<0D>", "<0E>", "<0F>",
     "<10>", "<11>", "<12>", "<13>", "<14>", "<15>", "<16>", "<17>",
     "<18>", "<19>", "<1A>", "<1B>", "<1C>", "<1D>", "<1E>", "<1F>",
     " ", "!", "<22>", "#", "$", "%", "&", "'",
     "(", ")", "*", "+", ",", "-", ".", "/",
     "0", "1", "2", "3", "4", "5", "6", "7",
     "8", "9", ":", ";", "<", "=", ">", "?",
     "@", "A", "B", "C", "D", "E", "F", "G",
     "H", "I", "J", "K", "L", "M", "N", "O",
     "P", "Q", "R", "S", "T", "U", "V", "W",
     "X", "Y", "Z", "[", "<5C>", "]", "^", "_",
     "<60>", "a", "b", "c", "d", "e", "f", "g",
     "h", "i", "j", "k", "l", "m", "n", "o",
     "p", "q", "r", "s", "t", "u", "v", "w",
     "x", "y", "z", "{", "|", "}", "~", "<7F>" >>

\* U+FFFD, what bytes.decode(errors='replace') puts for an undecodable byte.
ReplacementChar == "<U+FFFD>"

Ord(c) == (CHOOSE i \in 1..Len(Ascii) : Ascii[i] = c) - 1

HexDigits == <<"0", "1", "2", "3", "4", "5", "6", "7",
               "8", "9", "A", "B", "C", "D", "E", "F">>
LowerHexDigits == <<"0", "1", "2", "3", "4", "5", "6", "7",
                    "8", "9", "a", "b", "c", "d", "e", "f">>

IsHex(c) == \E i \in 1..16 : HexDigits[i] = c \/ LowerHexDigits[i] = c
HexVal(c) == (CHOOSE i \in 1..16 : HexDigits[i] = c \/ LowerHexDigits[i] = c) - 1

\* urllib.parse: the characters quote() never escapes.
AlwaysSafe ==
    {"A", "B", "C", "D", "E", "F", "G", "H", "I", "J", "K", "L", "M",
     "N", "O", "P", "Q", "R", "S", "T", "U", "V", "W", "X", "Y", "Z",
     "a", "b", "c", "d", "e", "f", "g", "h", "i", "j", "k", "l", "m",
     "n", "o", "p", "q", "r", "s", "t", "u", "v", "w", "x", "y", "z",
     "0", "1", "2", "3", "4", "5", "6", "7", "8", "9",
     "_", ".", "-", "~"}

\* One character of quote_plus: a space becomes '+', a safe character stays,
\* anything else becomes %XX of its UTF-8 bytes (upper-case hex).
QuoteChar(c) ==
    IF c = " " THEN <<"+">>
    ELSE IF c \in AlwaysSafe THEN <<c>>
    ELSE IF c = ReplacementChar
         THEN <<"%", "E", "F", "%", "B", "F", "%", "B", "D">>
    ELSE <<"%", HexDigits[(Ord(c) \div 16) + 1], HexDigits[(Ord(c) % 16) + 1]>>

RECURSIVE quote_plus(_)
quote_plus(s) ==
    IF s = << >> THEN << >> ELSE QuoteChar(Head(s)) \o quote_plus(Tail(s))

\* A decoded byte as a character.  A byte >= 0x80 is part of a valid UTF-8
\* sequence only after a lead byte 0xC2..0xF4; the strings modelled here hold
\* no hex digit C..F, so every such byte is a stray one and decodes to U+FFFD.
CharOfByte(b) == IF b < 128 THEN Ascii[b + 1] ELSE ReplacementChar

RECURSIVE PlusToSpace(_)
PlusToSpace(s) ==
    IF s = << >> THEN << >>
    ELSE <<IF Head(s) = "+" THEN " " ELSE Head(s)>> \o PlusToSpace(Tail(s))

\* urllib.parse.unquote: %XX with two hex digits is the byte XX, any other
\* '%' is kept as it is.
RECURSIVE unquote(_)
unquote(s) ==
    IF s = << >> THEN << >>
    ELSE IF Head(s) = "%" /\ Len(s) >= 3 /\ IsHex(s[2]) /\ IsHex(s[3])
         THEN <<CharOfByte(16 * HexVal(s[2]) + HexVal(s[3]))>>
                  \o unquote(SubSeq(s, 4, Len(s)))
    ELSE <<Head(s)>> \o unquote(Tail(s))

\* unquote_plus taken for unquote: a '+' stays a '+'.
unquote_plus_keeping_plus(s) == unquote(s)

unquote_plus(s) == unquote(PlusToSpace(s))

\* ---------------------------------------------------------------- settings
\* settings.KNOWN_DATASETS; "nope" is a dataset id no setting knows.
KNOWN_DATASETS == {"rfcs", "misc", "doi"}
DatasetIds == KNOWN_DATASETS \cup {"nope"}
AUTHORITATIVE_DATASETS == {"rfcs"}
SNAPSHOT == "snapshot"

\* Document types a request can name; "" is a missing or empty doctype.
Doctypes == {"", "IETF"}

\* The Referer header: absent, or present with a URL.
Referers == {<< >>, <<"/search/">>}

\* ------------------------------------------------------------------- index
\* The citations the index can hold: two datasets' records of one document.
Citation1 ==
    [dataset |-> "rfcs", ref |-> <<"2", " ">>, doctype |-> "IETF",
     docid |-> <<"%", " ">>, body |-> "body1"]
Citation2 ==
    [dataset |-> "misc", ref |-> <<"2">>, doctype |-> "IETF",
     docid |-> <<"%", " ">>, body |-> "body2"]
CitationPool == {Citation1, Citation2}

\* What get_doi_ref can do: return the document or raise.
DoiOutcomes == {"ok", "ConnectionError", "RuntimeError", "RefNotFoundError"}
DoiDocument == "doi-document"

VARIABLES
    EXTERNAL_DATASETS,  \* settings.EXTERNAL_DATASETS
    index,              \* the RefData rows of the citation index
    pc,                 \* "idle": waiting for a request, "done": answered
    request,            \* the request being answered
    calls,              \* collaborator calls made while answering it
    flashes,            \* messages added through django.contrib.messages
    response            \* the view's result

vars == <<EXTERNAL_DATASETS, index, pc, request, calls, flashes, response>>

\* ---------------------------------------------------------------- requests
NoGET == [doctype |-> "", docid |-> << >>, ref |-> << >>]

Request(view, dataset_id, doctype, docid, ref, get, referer) ==
    [view |-> view, dataset_id |-> dataset_id, doctype |-> doctype,
     docid |-> docid, ref |-> ref, GET |-> get, referer |-> referer]

NoRequest == Request("", "", "", << >>, << >>, NoGET, << >>)

\* request.headers.get('referer', '/')
Referer(req) == IF req.referer = << >> THEN "/" ELSE req.referer[1]

\* --------------------------------------------------------------- responses
NoResponse == [kind |-> "none", status |-> 0, body |-> << >>]

render(template, context) ==
    [kind |-> "render", status |-> 200, body |-> <<template, context>>]
HttpResponseNotFound(message) ==
    [kind |-> "HttpResponseNotFound", status |-> 404, body |-> <<message>>]
HttpResponseBadRequest(message) ==
    [kind |-> "HttpResponseBadRequest", status |-> 400, body |-> <<message>>]
\* django.shortcuts.redirect(view name, *args)
redirect(view, arg1, arg2) ==
    [kind |-> "redirect", status |-> 302, body |-> <<view, arg1, arg2>>]
HttpResponseRedirect(url) ==
    [kind |-> "HttpResponseRedirect", status |-> 302, body |-> <<url>>]
\* raise Http404(message): the exception Django answers with status 404
Http404(message) ==
    [kind |-> "Http404", status |-> 404, body |-> <<message>>]
\* bibxml.error_views.server_error(request)
server_error ==
    [kind |-> "server_error", status |-> 500, body |-> << >>]
\* an exception that leaves the view
Raised(exc) ==
    [kind |-> "exception", status |-> 500, body |-> <<exc>>]

\* messages.error(request, text)
error(text) == [level |-> "error", text |-> text]

Call(fn, args, result) == [fn |-> fn, args |-> args, result |-> result]

\* What a view did: its response, its collaborator calls, its flash messages.
Outcome(resp, cs, fs) == [response |-> resp, calls |-> cs, flashes |-> fs]

shared_context(external) ==
    [known_datasets |-> KNOWN_DATASETS,
     indexed_datasets |-> KNOWN_DATASETS \ external,
     external_datasets |-> external,
     authoritative_datasets |-> AUTHORITATIVE_DATASETS,
     snapshot |-> SNAPSHOT]

citation_details(dataset_id, ref, data, external) ==
    render("browse/citation_details.html",
           [dataset_id |-> dataset_id, ref |-> ref, data |-> data,
            shared |-> shared_context(external)])

\* ----------------------------------------------------------- collaborators
\* search_refs_relaton_struct: the citations whose docid has this type and id.
search_refs_relaton_struct(idx, doctype, docid) ==
    {c \in idx : c.doctype = doctype /\ c.docid = docid}

\* What a lookup did: returned a document (exc = "") or raised exc.
Returned(value) == [exc |-> "", value |-> value]
Raising(exc) == [exc |-> exc, value |-> ""]

\* get_indexed_ref: the document of (dataset_id, ref), or RefNotFoundError.
get_indexed_ref(idx, dataset_id, ref) ==
    LET found == {c \in idx : c.dataset = dataset_id /\ c.ref = ref}
    IN  IF found = {} THEN Raising("RefNotFoundError")
        ELSE Returned((CHOOSE c \in found : TRUE).body)

\* get_doi_ref: the external fetch; doi is what it does this time.
get_doi_ref(doi) ==
    IF doi = "ok" THEN Returned(DoiDocument) ELSE Raising(doi)

\* list_refs: the citations of a dataset.
list_refs(idx, dataset_id) == {c \in idx : c.dataset = dataset_id}

\* list_doctypes: the document types the index holds.
list_doctypes(idx) == {c.doctype : c \in idx}

\* ------------------------------------------------------------------- views
home(req, idx, external) ==
    LET non_empty_datasets == {c.dataset : c \in idx}
        total_indexed_citations == Cardinality(idx)
        browsable_datasets ==
            {ds_id \in shared_context(external).indexed_datasets :
                ds_id \in non_empty_datasets}
    IN  Outcome(
            render("browse/home.html",
                   [total_indexed_citations |-> total_indexed_citations,
                    browsable_datasets |-> browsable_datasets,
                    doctypes |-> list_doctypes(idx),
                    shared |-> shared_context(external)]),
            <<Call("list_doctypes", << >>, list_doctypes(idx))>>,
            << >>)

\* The URL-path mode showing the first match whenever there is any.
browse_citation_by_docid_path_first_match(req, idx, external) ==
    LET parsed_docid == unquote_plus(req.docid)
        citations == search_refs_relaton_struct(idx, req.doctype, parsed_docid)
        cs == <<Call("search_refs_relaton_struct",
                     <<req.doctype, parsed_docid>>, citations)>>
    IN  IF Cardinality(citations) >= 1
        THEN LET citation == CHOOSE c \in citations : TRUE
             IN  Outcome(citation_details(citation.dataset, citation.ref,
                                          citation.body, external),
                         cs, << >>)
        ELSE Outcome(HttpResponseNotFound(
                         <<"Citation was not found in indexed sources",
                           req.doctype, req.docid>>),
                     cs, << >>)

\* browse_citation_by_docid with doctype and docid in the URL path.
browse_citation_by_docid_path(req, idx, external) ==
    LET parsed_docid == unquote_plus(req.docid)
        citations ==
            search_refs_relaton_struct(idx, req.doctype, parsed_docid)
        num_citations == Cardinality(citations)
        cs == <<Call("search_refs_relaton_struct",
                     <<req.doctype, parsed_docid>>, citations)>>
    IN  IF num_citations = 1
        THEN LET citation == CHOOSE c \in citations : TRUE
             IN  Outcome(citation_details(citation.dataset, citation.ref,
                                          citation.body, external),
                         cs, << >>)
        ELSE IF num_citations = 0
        THEN Outcome(HttpResponseNotFound(
                         <<"Citation was not found in indexed sources",
                           req.doctype, req.docid>>),
                     cs, << >>)
        ELSE Outcome(HttpResponseNotFound(
                         <<"Multiple citations were found in indexed sources",
                           req.doctype, req.docid>>),
                     cs, << >>)

\* The form mode redirecting whenever there is any match.
browse_citation_by_docid_form_any_match(req, idx, external) ==
    LET doctype == req.GET.doctype
        docid == req.GET.docid
        citations == search_refs_relaton_struct(idx, doctype, docid)
        cs == <<Call("search_refs_relaton_struct",
                     <<doctype, docid>>, citations)>>
    IN  IF doctype = "" \/ docid = << >>
        THEN Outcome(HttpResponseBadRequest(
                         <<"Missing document type and/or ID">>),
                     << >>, << >>)
        ELSE IF Cardinality(citations) >= 1
        THEN Outcome(redirect("browse_citation_by_docid",
                              doctype, quote_plus(docid)),
                     cs, << >>)
        ELSE Outcome(HttpResponseRedirect(Referer(req)),
                     cs,
                     <<error(<<"No reliable match for a citation",
                               doctype, docid, Cardinality(citations)>>)>>)

\* The form mode rejecting a request only when both parameters are missing.
browse_citation_by_docid_form_both_missing(req, idx, external) ==
    LET doctype == req.GET.doctype
        docid == req.GET.docid
        citations == search_refs_relaton_struct(idx, doctype, docid)
        cs == <<Call("search_refs_relaton_struct",
                     <<doctype, docid>>, citations)>>
    IN  IF doctype = "" /\ docid = << >>
        THEN Outcome(HttpResponseBadRequest(
                         <<"Missing document type and/or ID">>),
                     << >>, << >>)
        ELSE IF Cardinality(citations) = 1
        THEN Outcome(redirect("browse_citation_by_docid",
                              doctype, quote_plus(docid)),
                     cs, << >>)
        ELSE Outcome(HttpResponseRedirect(Referer(req)),
                     cs,
                     <<error(<<"No reliable match for a citation",
                               doctype, docid, Cardinality(citations)>>)>>)

\* browse_citation_by_docid searching by doctype via a regular HTML form.
browse_citation_by_docid_form(req, idx, external) ==
    LET doctype == req.GET.doctype
        docid == req.GET.docid
        citations == search_refs_relaton_struct(idx, doctype, docid)
        cs == <<Call("search_refs_relaton_struct",
                     <<doctype, docid>>, citations)>>
    IN  IF doctype = "" \/ docid = << >>
        THEN Outcome(HttpResponseBadRequest(
                         <<"Missing document type and/or ID">>),
                     << >>, << >>)
        ELSE IF Cardinality(citations) = 1
        THEN Outcome(redirect("browse_citation_by_docid",
                              doctype, quote_plus(docid)),
                     cs, << >>)
        ELSE Outcome(HttpResponseRedirect(Referer(req)),
                     cs,
                     <<error(<<"No reliable match for a citation",
                               doctype, docid, Cardinality(citations)>>)>>)

browse_citation_by_docid(req, idx, external) ==
    IF req.doctype # "" /\ req.docid # << >>
    THEN browse_citation_by_docid_path(req, idx, external)
    ELSE browse_citation_by_docid_form(req, idx, external)

external_dataset(req, external) ==
    Outcome(render("browse/dataset.html",
                   [dataset_id |-> req.dataset_id,
                    shared |-> shared_context(external)]),
            << >>, << >>)

\* browse_external_reference with the reference in the URL path.
\* doi: what get_doi_ref does if it is called.
browse_external_reference_path(req, external, doi) ==
    LET parsed_ref == unquote_plus(req.ref)
        data == get_doi_ref(doi)
        cs == <<Call("get_doi_ref", <<parsed_ref>>, data)>>
    IN  IF req.dataset_id = "doi"
        THEN IF data.exc # ""
             THEN Outcome(server_error, cs, << >>)
             ELSE Outcome(citation_details(req.dataset_id, req.ref,
                                           data.value, external),
                          cs, << >>)
        ELSE Outcome(HttpResponseBadRequest(
                         <<"Unsupported external dataset ID">>),
                     << >>, << >>)

\* browse_external_reference searching via a regular HTML form.
\* caught: whether the exception get_doi_ref raises is a RuntimeError.
browse_external_reference_form(req, external, doi, caught) ==
    LET ref == req.GET.ref
        origin == Referer(req)
        unknown ==
            IF req.dataset_id \notin external
            THEN <<error(<<"Unknown external dataset", req.dataset_id>>)>>
            ELSE << >>
        data == get_doi_ref(doi)
        cs == <<Call("get_doi_ref", <<ref>>, data)>>
    IN  IF ref = << >>
        THEN Outcome(HttpResponseBadRequest(
                         <<"Missing dataset ID and/or reference">>),
                     << >>, << >>)
        ELSE IF req.dataset_id = "doi"
        THEN IF ref # << >>
             THEN IF data.exc = ""
                  THEN Outcome(redirect("browse_citation",
                                        req.dataset_id, quote_plus(ref)),
                               cs, unknown)
                  ELSE IF caught
                  THEN Outcome(HttpResponseRedirect(origin), cs,
                               Append(unknown,
                                      error(<<"Couldn't retrieve citation",
                                              data.exc>>)))
                  ELSE Outcome(Raised(data.exc), cs, unknown)
             ELSE Outcome(HttpResponseRedirect(origin), << >>,
                          Append(unknown,
                                 error(<<"Missing reference to fetch">>)))
        ELSE Outcome(HttpResponseRedirect(origin), << >>,
                     Append(unknown,
                            error(<<"Unsupported external dataset",
                                    req.dataset_id>>)))

browse_external_reference(req, external, doi, caught) ==
    IF req.ref # << >>
    THEN browse_external_reference_path(req, external, doi)
    ELSE browse_external_reference_form(req, external, doi, caught)

\* browse_indexed_reference without the inner try around get_doi_ref: its
\* RefNotFoundError reaches the outer handler, any other exception leaves.
browse_indexed_reference_no_inner_try(req, idx, external, doi) ==
    LET parsed_ref == unquote_plus(req.ref)
        data == IF req.dataset_id = "doi" THEN get_doi_ref(doi)
                ELSE get_indexed_ref(idx, req.dataset_id, parsed_ref)
        cs == IF req.dataset_id = "doi"
              THEN <<Call("get_doi_ref", <<parsed_ref>>, data)>>
              ELSE <<Call("get_indexed_ref",
                          <<req.dataset_id, parsed_ref>>, data)>>
    IN  IF data.exc = "RefNotFoundError"
        THEN Outcome(Http404(<<"Requested reference could not be found in dataset (or external source is unavailable)",
                               parsed_ref, req.dataset_id>>),
                     cs, << >>)
        ELSE IF data.exc # ""
        THEN Outcome(Raised(data.exc), cs, << >>)
        ELSE Outcome(citation_details(req.dataset_id, req.ref, data.value,
                                      external),
                     cs, << >>)

\* browse_indexed_reference looking up the reference as it is in the URL.
browse_indexed_reference_raw_ref(req, idx, external, doi) ==
    LET parsed_ref == unquote_plus(req.ref)
        data == IF req.dataset_id = "doi" THEN get_doi_ref(doi)
                ELSE get_indexed_ref(idx, req.dataset_id, req.ref)
        cs == IF req.dataset_id = "doi"
              THEN <<Call("get_doi_ref", <<parsed_ref>>, data)>>
              ELSE <<Call("get_indexed_ref",
                          <<req.dataset_id, req.ref>>, data)>>
    IN  IF req.dataset_id = "doi" /\ data.exc # ""
        THEN Outcome(server_error, cs, << >>)
        ELSE IF data.exc = "RefNotFoundError"
        THEN Outcome(Http404(<<"Requested reference could not be found in dataset (or external source is unavailable)",
                               parsed_ref, req.dataset_id>>),
                     cs, << >>)
        ELSE Outcome(citation_details(req.dataset_id, req.ref, data.value,
                                      external),
                     cs, << >>)

\* browse_indexed_reference without the handler of RefNotFoundError.
browse_indexed_reference_no_handler(req, idx, external, doi) ==
    LET parsed_ref == unquote_plus(req.ref)
        data == IF req.dataset_id = "doi" THEN get_doi_ref(doi)
                ELSE get_indexed_ref(idx, req.dataset_id, parsed_ref)
        cs == IF req.dataset_id = "doi"
              THEN <<Call("get_doi_ref", <<parsed_ref>>, data)>>
              ELSE <<Call("get_indexed_ref",
                          <<req.dataset_id, parsed_ref>>, data)>>
    IN  IF req.dataset_id = "doi" /\ data.exc # ""
        THEN Outcome(server_error, cs, << >>)
        ELSE IF data.exc # ""
        THEN Outcome(Raised(data.exc), cs, << >>)
        ELSE Outcome(citation_details(req.dataset_id, req.ref, data.value,
                                      external),
                     cs, << >>)

browse_indexed_reference(req, idx, external, doi) ==
    LET parsed_ref == unquote_plus(req.ref)
        data == IF req.dataset_id = "doi" THEN get_doi_ref(doi)
                ELSE get_indexed_ref(idx, req.dataset_id, parsed_ref)
        cs == IF req.dataset_id = "doi"
              THEN <<Call("get_doi_ref", <<parsed_ref>>, data)>>
              ELSE <<Call("get_indexed_ref",
                          <<req.dataset_id, parsed_ref>>, data)>>
    IN  IF req.dataset_id = "doi" /\ data.exc # ""
        THEN Outcome(server_error, cs, << >>)
        ELSE IF data.exc = "RefNotFoundError"
        THEN Outcome(Http404(<<"Requested reference could not be found in dataset (or external source is unavailable)",
                               parsed_ref, req.dataset_id>>),
                     cs, << >>)
        ELSE Outcome(citation_details(req.dataset_id, req.ref, data.value,
                                      external),
                     cs, << >>)

paginate_by == 20

\* IndexedDatasetCitationListView: ListView over list_refs(dataset_id).
IndexedDatasetCitationListView(req, idx, external) ==
    LET queryset == list_refs(idx, req.dataset_id)
    IN  Outcome(render("browse/dataset.html",
                       [object_list |-> queryset,
                        is_paginated |-> Cardinality(queryset) > paginate_by,
                        dataset_id |-> req.dataset_id,
                        shared |-> shared_context(external)]),
                <<Call("list_refs", <<req.dataset_id>>, queryset)>>,
                << >>)

\* ----------------------------------------------------------------- actions
Init ==
    /\ EXTERNAL_DATASETS \in {{"doi"}, {}}
    /\ index \in SUBSET CitationPool
    /\ pc = "idle"
    /\ request = NoRequest
    /\ calls = << >>
    /\ flashes = << >>
    /\ response = NoResponse

\* The framework hands req to a view and takes what the view did.
Handle(req, outcome) ==
    /\ pc' = "done"
    /\ request' = req
    /\ calls' = outcome.calls
    /\ flashes' = outcome.flashes
    /\ response' = outcome.response
    /\ UNCHANGED <<EXTERNAL_DATASETS, index>>

Home ==
    /\ pc = "idle"
    /\ \E referer \in Referers :
         LET req == Request("home", "", "", << >>, << >>, NoGET, referer)
         IN  Handle(req, home(req, index, EXTERNAL_DATASETS))

BrowseCitationByDocid ==
    /\ pc = "idle"
    /\ \E doctype \in Doctypes, docid \in PathStrings,
          get_doctype \in Doctypes, get_docid \in QueryStrings,
          referer \in Referers :
         LET req == Request("browse_citation_by_docid", "", doctype, docid,
                            << >>,
                            [doctype |-> get_doctype, docid |-> get_docid,
                             ref |-> << >>],
                            referer)
         IN  Handle(req, browse_citation_by_docid(req, index, EXTERNAL_DATASETS))

\* The client follows redirect('browse_citation_by_docid', doctype, docid):
\* a URL-path request with the redirect's arguments.
FollowRedirect ==
    /\ pc = "done"
    /\ response.kind = "redirect"
    /\ response.body[1] = "browse_citation_by_docid"
    /\ LET req == Request("browse_citation_by_docid", "", response.body[2],
                          response.body[3], << >>, NoGET, request.referer)
       IN  Handle(req, browse_citation_by_docid(req, index, EXTERNAL_DATASETS))

ExternalDataset ==
    /\ pc = "idle"
    /\ \E dataset_id \in DatasetIds, referer \in Referers :
         LET req == Request("external_dataset", dataset_id, "", << >>, << >>,
                            NoGET, referer)
         IN  Handle(req, external_dataset(req, EXTERNAL_DATASETS))

BrowseExternalReference ==
    /\ pc = "idle"
    /\ \E dataset_id \in DatasetIds, ref \in PathStrings,
          get_ref \in QueryStrings, referer \in Referers,
          doi \in DoiOutcomes, caught \in BOOLEAN :
         \* RuntimeError is caught, ConnectionError is not; whether
         \* RefNotFoundError derives from RuntimeError is not in views.py.
         /\ doi = "RuntimeError" => caught
         /\ doi \in {"ok", "ConnectionError"} => ~caught
         /\ LET req == Request("browse_external_reference", dataset_id, "",
                               << >>, ref,
                               [doctype |-> "", docid |-> << >>,
                                ref |-> get_ref],
                               referer)
            IN  Handle(req, browse_external_reference(
                                req, EXTERNAL_DATASETS, doi, caught))

BrowseIndexedReference ==
    /\ pc = "idle"
    /\ \E dataset_id \in DatasetIds, ref \in PathStrings,
          referer \in Referers, doi \in DoiOutcomes :
         LET req == Request("browse_indexed_reference", dataset_id, "",
                            << >>, ref, NoGET, referer)
         IN  Handle(req, browse_indexed_reference(
                             req, index, EXTERNAL_DATASETS, doi))

BrowseDataset ==
    /\ pc = "idle"
    /\ \E dataset_id \in DatasetIds, referer \in Referers :
         LET req == Request("IndexedDatasetCitationListView", dataset_id, "",
                            << >>, << >>, NoGET, referer)
         IN  Handle(req, IndexedDatasetCitationListView(
                             req, index, EXTERNAL_DATASETS))

\* The framework is ready for the next request.
NextRequest ==
    /\ pc = "done"
    /\ pc' = "idle"
    /\ request' = NoRequest
    /\ calls' = << >>
    /\ flashes' = << >>
    /\ response' = NoResponse
    /\ UNCHANGED <<EXTERNAL_DATASETS, index>>

\* The indexer adds or removes citations.
UpdateIndex ==
    /\ index' \in (SUBSET CitationPool) \ {index}
    /\ UNCHANGED <<EXTERNAL_DATASETS, pc, request, calls, flashes, response>>

Next ==
    \/ Home
    \/ BrowseCitationByDocid
    \/ FollowRedirect
    \/ ExternalDataset
    \/ BrowseExternalReference
    \/ BrowseIndexedReference
    \/ BrowseDataset
    \/ NextRequest
    \/ UpdateIndex

Spec == Init /\ [][Next]_vars

\* ------------------------------------------------------------------ claims
Answered(view) == pc = "done" /\ request.view = view

\* browse_citation_by_docid answered from the URL path / from the form.
DocidPathMode ==
    /\ Answered("browse_citation_by_docid")
    /\ request.doctype # "" /\ request.docid # << >>
DocidFormMode ==
    /\ Answered("browse_citation_by_docid")
    /\ ~(request.doctype # "" /\ request.docid # << >>)
    /\ request.GET.doctype # "" /\ request.GET.docid # << >>

\* browse_external_reference answered from the URL path / from the form.
ExternalPathMode ==
    Answered("browse_external_reference") /\ request.ref # << >>
ExternalFormMode ==
    /\ Answered("browse_external_reference")
    /\ request.ref = << >> /\ request.GET.ref # << >>

Searched ==
    Len(calls) = 1 /\ calls[1].fn = "search_refs_relaton_struct"
NumMatches == Cardinality(calls[1].result)

DoiRaised ==
    /\ Len(calls) = 1 /\ calls[1].fn = "get_doi_ref"
    /\ calls[1].result.exc # ""

\* The referring page: the Referer header, or '/' without one.
ReferringPage == IF request.referer = << >> THEN "/" ELSE request.referer[1]

RedirectsToReferrer ==
    /\ response.kind = "HttpResponseRedirect"
    /\ response.status = 302
    /\ response.body = <<ReferringPage>>

HasErrorFlash == \E i \in 1..Len(flashes) : flashes[i].level = "error"

NotFoundText ==
    IF NumMatches = 0
    THEN "Citation was not found in indexed sources"
    ELSE "Multiple citations were found in indexed sources"

\* C1 as stated: whenever the structured search of browse_citation_by_docid
\* returns zero or more than one match, the response is HTTP 404 with a
\* descriptive message, in URL-path mode and in form mode.
C1_NotFoundIs404InBothModes ==
    (Answered("browse_citation_by_docid") /\ Searched /\ NumMatches # 1)
        => /\ response.kind = "HttpResponseNotFound"
           /\ response.status = 404

\* C1 amended: zero or several matches give HTTP 404 with a message naming
\* the doctype and docid in URL-path mode; in form mode they give one error
\* flash message and a redirect to the referring page.
C1_NotFoundByMode ==
    /\ (DocidPathMode /\ Searched /\ NumMatches # 1)
          => /\ response.kind = "HttpResponseNotFound"
             /\ response.status = 404
             /\ response.body =
                    <<(<<NotFoundText, request.doctype, request.docid>>)>>
             /\ flashes = << >>
    /\ (DocidFormMode /\ Searched /\ NumMatches # 1)
          => /\ RedirectsToReferrer
             /\ Len(flashes) = 1
             /\ flashes[1].level = "error"
             /\ flashes[1].text[2] = request.GET.doctype
             /\ flashes[1].text[3] = request.GET.docid
             /\ flashes[1].text[4] = NumMatches

C1_Witness ==
    /\ DocidPathMode /\ Searched /\ NumMatches = 2
    /\ response.status = 404

\* C2 as stated: whenever get_doi_ref raises during browse_external_reference
\* or browse_indexed_reference, the response is the generic server-error
\* page, in URL-path mode and in form mode, and nothing leaves the view.
C2_DoiFailureIsServerError ==
    ((Answered("browse_external_reference")
         \/ Answered("browse_indexed_reference")) /\ DoiRaised)
        => response.kind = "server_error"

\* C2 amended: an exception of get_doi_ref gives the server-error page in
\* browse_indexed_reference and in the URL-path mode of
\* browse_external_reference; in the form mode of browse_external_reference a
\* RuntimeError gives an error flash message and a redirect to the referring
\* page, and any other exception leaves the view.
C2_DoiFailureByMode ==
    /\ ((ExternalPathMode \/ Answered("browse_indexed_reference")) /\ DoiRaised)
          => /\ response.kind = "server_error"
             /\ flashes = << >>
    /\ (ExternalFormMode /\ DoiRaised)
          => \/ /\ calls[1].result.exc # "ConnectionError"
                /\ RedirectsToReferrer
                /\ flashes # << >>
                /\ flashes[Len(flashes)] =
                       [level |-> "error",
                        text |-> <<"Couldn't retrieve citation",
                                   calls[1].result.exc>>]
             \/ /\ calls[1].result.exc # "RuntimeError"
                /\ response.kind = "exception"
                /\ response.body = <<calls[1].result.exc>>

C2_Witness ==
    /\ Answered("browse_indexed_reference")
    /\ DoiRaised
    /\ calls[1].result.exc = "RefNotFoundError"
    /\ response.kind = "server_error"

\* C3: exactly one match is success in browse_citation_by_docid: URL-path
\* mode renders that citation's dataset, ref and body, form mode redirects to
\* browse_citation_by_docid for (doctype, quote_plus(docid)), neither adds a
\* flash message; any other number of matches gives neither response.
C3_ExactlyOneIsSuccess ==
    /\ (DocidPathMode /\ Searched /\ NumMatches = 1)
          => /\ response.kind = "render"
             /\ response.body[1] = "browse/citation_details.html"
             /\ \E c \in calls[1].result :
                  /\ response.body[2].dataset_id = c.dataset
                  /\ response.body[2].ref = c.ref
                  /\ response.body[2].data = c.body
             /\ flashes = << >>
    /\ (DocidFormMode /\ Searched /\ NumMatches = 1)
          => /\ response.kind = "redirect"
             /\ response.body = <<"browse_citation_by_docid",
                                  request.GET.doctype,
                                  quote_plus(request.GET.docid)>>
             /\ flashes = << >>
    /\ (Answered("browse_citation_by_docid")
            /\ response.kind \in {"render", "redirect"})
          => Searched /\ NumMatches = 1

C3_Witness ==
    /\ DocidFormMode /\ Searched /\ NumMatches = 1
    /\ response.kind = "redirect"
    /\ request.GET.docid = <<"%", " ">>

\* C4: malformed input returns HTTP 400 and touches nothing else: no
\* doctype/docid pair in the path nor in the query string of
\* browse_citation_by_docid, no ref in the path nor in the query string of
\* browse_external_reference: 400, no collaborator call, no flash message;
\* a URL-path browse_external_reference for a dataset other than 'doi':
\* 400 without a call of get_doi_ref.
C4_MalformedInputIs400 ==
    /\ (/\ Answered("browse_citation_by_docid")
        /\ (request.doctype = "" \/ request.docid = << >>)
        /\ (request.GET.doctype = "" \/ request.GET.docid = << >>))
          => /\ response.kind = "HttpResponseBadRequest"
             /\ response.status = 400
             /\ calls = << >>
             /\ flashes = << >>
    /\ (/\ Answered("browse_external_reference")
        /\ request.ref = << >>
        /\ request.GET.ref = << >>)
          => /\ response.kind = "HttpResponseBadRequest"
             /\ response.status = 400
             /\ calls = << >>
             /\ flashes = << >>
    /\ (ExternalPathMode /\ request.dataset_id # "doi")
          => /\ response.kind = "HttpResponseBadRequest"
             /\ response.status = 400
             /\ \A i \in 1..Len(calls) : calls[i].fn # "get_doi_ref"

C4_Witness ==
    /\ Answered("browse_citation_by_docid")
    /\ request.docid = << >>
    /\ request.doctype = "IETF"
    /\ request.GET.doctype = ""
    /\ request.GET.docid = <<"%", "+">>
    /\ response.status = 400

\* C5: browse_indexed_reference for a dataset other than 'doi' calls
\* get_indexed_ref once, with (dataset_id, unquote_plus(ref)), and never
\* get_doi_ref; RefNotFoundError ends in Http404, a returned document is
\* rendered as the citation details with the dataset_id, the ref and the data.
C5_IndexedLookup ==
    (Answered("browse_indexed_reference") /\ request.dataset_id # "doi")
        => /\ Len(calls) = 1
           /\ calls[1].fn = "get_indexed_ref"
           /\ calls[1].args = <<request.dataset_id, unquote_plus(request.ref)>>
           /\ calls[1].result.exc = "RefNotFoundError"
                 => response.kind = "Http404" /\ response.status = 404
           /\ calls[1].result.exc = ""
                 => /\ response.kind = "render"
                    /\ response.body[1] = "browse/citation_details.html"
                    /\ response.body[2].dataset_id = request.dataset_id
                    /\ response.body[2].ref = request.ref
                    /\ response.body[2].data = calls[1].result.value

C5_Witness ==
    /\ Answered("browse_indexed_reference")
    /\ request.dataset_id = "rfcs"
    /\ request.ref = <<"2", "+">>
    /\ response.kind = "render"
    /\ response.body[2].data = "body1"

C7_NotFoundIsHttp404Everywhere ==
    (/\ Answered("browse_indexed_reference")
     /\ Len(calls) = 1
     /\ calls[1].result.exc = "RefNotFoundError")
        => /\ response.kind = "Http404"
           /\ response.status = 404

\* C7 amended: a RefNotFoundError of get_indexed_ref (dataset_id other than
\* 'doi') ends in Http404 with the "could not be found" message naming the
\* unquoted reference and the dataset; a RefNotFoundError of get_doi_ref
\* (dataset_id 'doi') gives the server-error page.
C7_NotFoundByDataset ==
    (/\ Answered("browse_indexed_reference")
     /\ Len(calls) = 1
     /\ calls[1].result.exc = "RefNotFoundError")
        => IF request.dataset_id = "doi"
           THEN response.kind = "server_error"
           ELSE /\ response.kind = "Http404"
                /\ response.status = 404
                /\ response.body =
                       <<(<<"Requested reference could not be found in dataset (or external source is unavailable)",
                            unquote_plus(request.ref), request.dataset_id>>)>>

C7_Witness ==
    /\ Answered("browse_indexed_reference")
    /\ request.dataset_id = "misc"
    /\ request.ref = <<"%", "+">>
    /\ calls[1].result.exc = "RefNotFoundError"
    /\ response.kind = "Http404"

\* The step in which the client follows the redirect of a form-mode answer.
FollowsFormRedirect ==
    /\ DocidFormMode
    /\ response.kind = "redirect"
    /\ response.body[1] = "browse_citation_by_docid"
    /\ pc' = "done"
    /\ index' = index
    /\ request'.view = "browse_citation_by_docid"
    /\ request'.doctype = response.body[2]
    /\ request'.docid = response.body[3]

\* C8: round trip of browse_citation_by_docid: the URL-path request that
\* carries the arguments of a form-mode redirect searches with the doctype
\* and docid of the form-mode request, and while the index answers that
\* search as before it renders the citation details, never 404.
C8_FormToPathRoundTrip ==
    [][FollowsFormRedirect
          => /\ Len(calls') = 1
             /\ calls'[1].fn = "search_refs_relaton_struct"
             /\ calls'[1].args = <<request.GET.doctype, request.GET.docid>>
             /\ calls'[1].args = calls[1].args
             /\ (search_refs_relaton_struct(index, request.GET.doctype,
                                            request.GET.docid)
                     = calls[1].result)
                   => /\ response'.kind = "render"
                      /\ response'.body[1] = "browse/citation_details.html"
                      /\ response'.status # 404]_vars

C8_Witness ==
    /\ DocidPathMode
    /\ request.docid = <<"%", "2", "5", "+">>
    /\ calls[1].args = <<"IETF", <<"%", " ">> >>
    /\ response.kind = "render"

\* C9 as stated: in every view an error flash message is added only if the
\* response is the redirect to the referring page.
C9_FlashOnlyWithRedirectToReferrer ==
    HasErrorFlash => RedirectsToReferrer

====
